---- MODULE Spec2Model ----
(***************************************************************************)
(* A model of pubmed_pharma_papers: the affiliation classifier and the     *)
(* company-name extractor (paper_processor.py), the aggregation of papers  *)
(* into report rows and their export by main (paper_processor.py, main.py),*)
(* and the chunked retrieval and parsing of records (pubmed_client.py).    *)
(*                                                                         *)
(* A Python str is a sequence of one-character strings, so that lower(),   *)
(* strip(), "in", join and the regular expressions are computed character  *)
(* by character.                                                           *)
(***************************************************************************)
EXTENDS Integers, Sequences, FiniteSets, TLC

VARIABLES
    arg_affiliation,    \* the str passed to the classifier and the extractor
    is_pharma_ret,      \* <<>> before is_pharma_affiliation returned, else <<bool>>
    company_name_ret,   \* <<>> before extract_company_name returned, else <<str>>
    papers,             \* the list of paper dicts main got from fetch_details
    phase,              \* "fetched" while the records arrive, "ran" once main has run
    args_file,          \* args.file of the last run of main: <<>> (None) or <<path>>
    processed_papers,   \* what process_papers returned in the last run
    stdout,             \* the lines the last run printed to standard output
    fs,                 \* the output file: <<>> when absent, else <<its content>>
    pmid_list,          \* the identifiers fetch_details is called with
    fetch_pc,           \* "idle", "loop" in fetch_details, "done" or "raised"
    loop_i,             \* fetch_details' loop index i
    all_papers,         \* fetch_details' accumulated result
    trace,              \* the requests sent and the pauses taken, in order
    xml_content,        \* the payload _parse_papers is called with
    parse_ret           \* <<>> before _parse_papers returned, else <<its list>>

strVars == <<arg_affiliation, is_pharma_ret, company_name_ret>>

procVars == <<papers, phase, args_file, processed_papers, stdout, fs>>

fetchVars == <<pmid_list, fetch_pc, loop_i, all_papers, trace>>

parseVars == <<xml_content, parse_ret>>

vars == <<arg_affiliation, is_pharma_ret, company_name_ret,
          papers, phase, args_file, processed_papers, stdout, fs,
          pmid_list, fetch_pc, loop_i, all_papers, trace, xml_content, parse_ret>>

\* the parts of the state a specification does not use
StrIdle ==
    /\ arg_affiliation = <<>>
    /\ is_pharma_ret = <<>>
    /\ company_name_ret = <<>>

ProcIdle ==
    /\ papers = <<>>
    /\ phase = "idle"
    /\ args_file = <<>>
    /\ processed_papers = <<>>
    /\ stdout = <<>>
    /\ fs = <<>>

FetchIdle ==
    /\ pmid_list = <<>>
    /\ fetch_pc = "idle"
    /\ loop_i = 0
    /\ all_papers = <<>>
    /\ trace = <<>>

ParseIdle ==
    /\ xml_content = [wellformed |-> FALSE, articles |-> <<>>]
    /\ parse_ret = <<>>

(***************************************************************************)
(* Bounds of the model.                                                    *)
(***************************************************************************)
\* the number of tokens an affiliation string is built from
MaxTokens == 3

\* the number of papers, authors and affiliations together in the fetched records
MaxNodes == 6

\* the same, for the records that vary the corresponding-author fields
MaxEmailNodes == 5

\* the number of identifiers fetch_details is called with
MaxIds == 201

\* the number of articles in a payload _parse_papers is called with
MaxArticles == 2

(***************************************************************************)
(* Python str operations.                                                  *)
(***************************************************************************)
UpperAlpha ==
    <<"A","B","C","D","E","F","G","H","I","J","K","L","M",
      "N","O","P","Q","R","S","T","U","V","W","X","Y","Z">>

LowerAlpha ==
    <<"a","b","c","d","e","f","g","h","i","j","k","l","m",
      "n","o","p","q","r","s","t","u","v","w","x","y","z">>

Digits == {"0","1","2","3","4","5","6","7","8","9"}

\* the characters str.strip() removes
Whitespace == {" ", "\t", "\n", "\r", "\f"}

\* str.lower() on one character
LowerChar(c) ==
    IF \E k \in 1..26 : UpperAlpha[k] = c
    THEN LowerAlpha[CHOOSE k \in 1..26 : UpperAlpha[k] = c]
    ELSE c

\* str.lower()
Lower(s) == [i \in 1..Len(s) |-> LowerChar(s[i])]

\* whether t occurs in s at index i (1-based)
MatchesAt(s, i, t) ==
    /\ i >= 1
    /\ i + Len(t) - 1 <= Len(s)
    /\ \A k \in 1..Len(t) : s[i + k - 1] = t[k]

\* Python's "t in s"
Contains(t, s) == \E i \in 1..(Len(s) - Len(t) + 1) : MatchesAt(s, i, t)

\* str.strip(): the text between the first and the last non-whitespace character
Strip(s) ==
    LET keep == {i \in 1..Len(s) : s[i] \notin Whitespace}
    IN  IF keep = {} THEN <<>>
        ELSE LET lo == CHOOSE i \in keep : \A j \in keep : i <= j
                 hi == CHOOSE i \in keep : \A j \in keep : j <= i
             IN  SubSeq(s, lo, hi)

\* the concatenation of a sequence of sequences, by halves to keep the
\* evaluation shallow on long lists
RECURSIVE Concat(_)
Concat(ss) ==
    IF ss = <<>> THEN <<>>
    ELSE IF Len(ss) = 1 THEN ss[1]
    ELSE LET h == Len(ss) \div 2
         IN  Concat(SubSeq(ss, 1, h)) \o Concat(SubSeq(ss, h + 1, Len(ss)))

\* sep.join(ss) for a list ss, by halves likewise
RECURSIVE Join(_, _)
Join(sep, ss) ==
    IF ss = <<>> THEN <<>>
    ELSE IF Len(ss) = 1 THEN ss[1]
    ELSE LET h == Len(ss) \div 2
         IN  Join(sep, SubSeq(ss, 1, h)) \o sep \o Join(sep, SubSeq(ss, h + 1, Len(ss)))

(***************************************************************************)
(* PaperProcessor: the classifier and the extractor.                       *)
(***************************************************************************)
\* paper_processor.py:14-18
PHARMA_TERMS ==
    { <<"p","h","a","r","m","a">>,
      <<"p","h","a","r","m","a","c","e","u","t","i","c","a","l">>,
      <<"b","i","o","t","e","c","h">>,
      <<"t","h","e","r","a","p","e","u","t","i","c","s">>,
      <<"b","i","o","s","c","i","e","n","c","e">>,
      <<"l","a","b","o","r","a","t","o","r","i","e","s">>,
      <<"b","i","o","l","o","g","i","c","s">>,
      <<"b","i","o","p","h","a","r","m","a">>,
      <<"m","e","d","i","c","i","n","e","s">>,
      <<"b","i","o","t","h","e","r","a","p","e","u","t","i","c","s">>,
      <<"b","i","o","s","y","s","t","e","m","s">>,
      <<"d","r","u","g">>,
      <<"h","e","a","l","t","h">>,
      <<"m","e","d","i","c","a","l">>,
      <<"d","i","a","g","n","o","s","t","i","c","s">>,
      <<"g","e","n","o","m","i","c","s">> }

\* paper_processor.py:21-25
ACADEMIC_TERMS ==
    { <<"u","n","i","v","e","r","s","i","t","y">>,
      <<"c","o","l","l","e","g","e">>,
      <<"i","n","s","t","i","t","u","t","e">>,
      <<"s","c","h","o","o","l">>,
      <<"a","c","a","d","e","m","y">>,
      <<"h","o","s","p","i","t","a","l">>,
      <<"c","l","i","n","i","c">>,
      <<"m","e","d","i","c","a","l"," ","c","e","n","t","e","r">>,
      <<"r","e","s","e","a","r","c","h"," ","c","e","n","t","e","r">>,
      <<"f","o","u","n","d","a","t","i","o","n">>,
      <<"l","a","b","o","r","a","t","o","r","y">>,
      <<"n","a","t","i","o","n","a","l">>,
      <<"f","e","d","e","r","a","l">>,
      <<"m","i","n","i","s","t","r","y">>,
      <<"d","e","p","a","r","t","m","e","n","t">> }

\* paper_processor.py:62, the list any() scans
COMPANY_INDICATORS ==
    << <<" ","i","n","c">>,
      <<" ","c","o","r","p">>,
      <<" ","c","o",".">>,
      <<" ","l","t","d">>,
      <<" ","l","l","c">>,
      <<"c","o","m","p","a","n","y">>,
      <<" ","s","a">>,
      <<" ","a","g">>,
      <<" ","g","m","b","h">> >>

\* paper_processor.py:66, the alternation of the regular expression
ENDING_ALTERNATIVES ==
    << <<"i","n","c">>,
      <<"c","o","r","p">>,
      <<"c","o",".">>,
      <<"l","t","d">>,
      <<"l","l","c">>,
      <<"g","m","b","h">>,
      <<"s","a">>,
      <<"a","g">>,
      <<"p","t","y">> >>

\* the end of the text for "$": the very end, or just before a final newline
ReAtEnd(s, j) == j = Len(s) + 1 \/ (j = Len(s) /\ s[j] = "\n")

\* re.search(r'(?:inc|corp|co\.|ltd|llc|gmbh|sa|ag|pty)\.?$', s) is not None
ReSearchEnding(s) ==
    \E i \in 1..Len(s) : \E k \in 1..Len(ENDING_ALTERNATIVES) :
        LET alt == ENDING_ALTERNATIVES[k]
            j == i + Len(alt)
        IN  /\ MatchesAt(s, i, alt)
            /\ \/ (j <= Len(s) /\ s[j] = "." /\ ReAtEnd(s, j + 1))
               \/ ReAtEnd(s, j)

\* a plausible slip: the academic exclusion is skipped
is_pharma_affiliation_noacademic(affiliation) ==
    IF affiliation = <<>> THEN FALSE
    ELSE LET affiliation_lower == Lower(affiliation)
         IN  IF \E term \in PHARMA_TERMS :
                    /\ Contains(term, affiliation_lower)
                    /\ \E k \in 1..Len(COMPANY_INDICATORS) :
                           Contains(COMPANY_INDICATORS[k], affiliation_lower)
             THEN TRUE
             ELSE ReSearchEnding(Strip(affiliation_lower))

\* PaperProcessor.is_pharma_affiliation
is_pharma_affiliation(affiliation) ==
    IF affiliation = <<>> THEN FALSE
    ELSE LET affiliation_lower == Lower(affiliation)
         IN  IF \E term \in ACADEMIC_TERMS : Contains(term, affiliation_lower)
             THEN FALSE
             ELSE IF \E term \in PHARMA_TERMS :
                        /\ Contains(term, affiliation_lower)
                        /\ \E k \in 1..Len(COMPANY_INDICATORS) :
                               Contains(COMPANY_INDICATORS[k], affiliation_lower)
             THEN TRUE
             ELSE IF ReSearchEnding(Strip(affiliation_lower))
             THEN TRUE
             ELSE FALSE

\* re.search(r'^([^,\(]+)', s): the length of group 1, 0 when there is no match
RECURSIVE ReMatchNoDelimiter(_)
ReMatchNoDelimiter(s) ==
    IF s = <<>> \/ Head(s) \in {",", "("} THEN 0
    ELSE 1 + ReMatchNoDelimiter(Tail(s))

\* PaperProcessor.extract_company_name
extract_company_name(affiliation) ==
    IF affiliation = <<>> THEN <<>>
    ELSE LET n == ReMatchNoDelimiter(affiliation)
         IN  IF n > 0 THEN Strip(SubSeq(affiliation, 1, n)) ELSE affiliation

(***************************************************************************)
(* PaperProcessor.process_papers and export_to_csv.                        *)
(*                                                                         *)
(* A paper is [pmid, title, publication_date, authors], an author is       *)
(* [name, affiliations, is_corresponding, email].  company_affiliations is *)
(* a Python set of str: its iteration order follows the hash of the        *)
(* strings, which CPython salts per process.  hash is that process's       *)
(* salted hash, a ranking of the strings; insertion order and collisions   *)
(* are left out.                                                           *)
(***************************************************************************)
\* the affiliation strings of the fetched records
Affiliations ==
    { <<"A","c","m","e"," ","P","h","a","r","m","a"," ","A","G",","," ","B","a","s","e","l">>,
      <<"B","e","t","a"," ","C","o","r","p">>,
      <<"Y","a","l","e"," ","S","c","h","o","o","l"," ","I","n","c">> }

\* is_pharma_affiliation and extract_company_name on the affiliation strings
\* of the fetched records, computed once
Classified == [a \in Affiliations |-> is_pharma_affiliation(a)]

Extracted == [a \in Affiliations |-> extract_company_name(a)]

\* the iteration order of a set of str under the process's hash
RECURSIVE SetIteration(_, _)
SetIteration(S, hash) ==
    IF S = {} THEN <<>>
    ELSE LET x == CHOOSE y \in S : \A z \in S : hash[y] <= hash[z]
         IN  <<x>> \o SetIteration(S \ {x}, hash)

\* a plausible change: an author already listed is not listed again
RECURSIVE AffiliationLoop_dedup(_, _, _)
AffiliationLoop_dedup(author_name, affiliations, acc) ==
    IF affiliations = <<>> THEN acc
    ELSE LET aff == Head(affiliations)
             company_name == Extracted[aff]
             hit == Classified[aff]
             seen == \E k \in 1..Len(acc.pharma_authors) :
                         acc.pharma_authors[k] = author_name
             next ==
                 [acc EXCEPT
                    !.pharma_authors =
                        IF hit /\ ~seen THEN Append(@, author_name) ELSE @,
                    !.company_affiliations =
                        IF hit /\ company_name # <<>> THEN @ \cup {company_name} ELSE @]
         IN  AffiliationLoop_dedup(author_name, Tail(affiliations), next)

\* process_papers, the loop over one author's affiliations (lines 114-119)
RECURSIVE AffiliationLoop(_, _, _)
AffiliationLoop(author_name, affiliations, acc) ==
    IF affiliations = <<>> THEN acc
    ELSE LET aff == Head(affiliations)
             company_name == Extracted[aff]
             hit == Classified[aff]
             next ==
                 [acc EXCEPT
                    !.pharma_authors = IF hit THEN Append(@, author_name) ELSE @,
                    !.company_affiliations =
                        IF hit /\ company_name # <<>> THEN @ \cup {company_name} ELSE @]
         IN  AffiliationLoop(author_name, Tail(affiliations), next)

\* process_papers, the loop over a paper's authors (lines 110-123)
RECURSIVE AuthorLoop(_, _)
AuthorLoop(authors, acc) ==
    IF authors = <<>> THEN acc
    ELSE LET author == Head(authors)
             scanned == AffiliationLoop(author.name, author.affiliations, acc)
             next ==
                 IF author.is_corresponding /\ author.email # <<>>
                 THEN [scanned EXCEPT !.corresponding_email = author.email]
                 ELSE scanned
         IN  AuthorLoop(Tail(authors), next)

\* a plausible slip: every paper gets a row
PaperRows_unfiltered(paper, hash) ==
    LET acc == AuthorLoop(paper.authors,
                   [pharma_authors |-> <<>>, company_affiliations |-> {},
                    corresponding_email |-> <<>>])
    IN  << [PubmedID |-> paper.pmid,
            Title |-> paper.title,
            Publication_Date |-> paper.publication_date,
            Non_academic_Authors |-> Join(<<";", " ">>, acc.pharma_authors),
            Company_Affiliations |->
                Join(<<";", " ">>, SetIteration(acc.company_affiliations, hash)),
            Corresponding_Author_Email |-> acc.corresponding_email] >>

\* process_papers, the body of the loop over papers (lines 105-135): the rows
\* one paper adds to processed_papers
PaperRows(paper, hash) ==
    LET acc == AuthorLoop(paper.authors,
                   [pharma_authors |-> <<>>, company_affiliations |-> {},
                    corresponding_email |-> <<>>])
    IN  IF acc.pharma_authors # <<>>
        THEN << [PubmedID |-> paper.pmid,
                 Title |-> paper.title,
                 Publication_Date |-> paper.publication_date,
                 Non_academic_Authors |-> Join(<<";", " ">>, acc.pharma_authors),
                 Company_Affiliations |->
                     Join(<<";", " ">>, SetIteration(acc.company_affiliations, hash)),
                 Corresponding_Author_Email |-> acc.corresponding_email] >>
        ELSE <<>>

\* PaperProcessor.process_papers
RECURSIVE process_papers(_, _)
process_papers(ps, hash) ==
    IF ps = <<>> THEN <<>>
    ELSE PaperRows(Head(ps), hash) \o process_papers(Tail(ps), hash)

\* export_to_csv, fieldnames (lines 159-163)
fieldnames ==
    << <<"P","u","b","m","e","d","I","D">>,
       <<"T","i","t","l","e">>,
       <<"P","u","b","l","i","c","a","t","i","o","n"," ","D","a","t","e">>,
       <<"N","o","n","-","a","c","a","d","e","m","i","c"," ","A","u","t","h","o","r","(","s",")">>,
       <<"C","o","m","p","a","n","y"," ","A","f","f","i","l","i","a","t","i","o","n","(","s",")">>,
       <<"C","o","r","r","e","s","p","o","n","d","i","n","g"," ","A","u","t","h","o","r"," ","E","m","a","i","l">> >>

\* csv.writer with the default dialect: one field, quoted when it holds the
\* delimiter, the quote character or a line break, quotes doubled
RECURSIVE CsvDoubleQuotes(_)
CsvDoubleQuotes(s) ==
    IF s = <<>> THEN <<>>
    ELSE (IF Head(s) = "\"" THEN <<"\"", "\"">> ELSE <<Head(s)>>)
         \o CsvDoubleQuotes(Tail(s))

CsvField(s) ==
    IF \E i \in 1..Len(s) : s[i] \in {",", "\"", "\r", "\n"}
    THEN <<"\"">> \o CsvDoubleQuotes(s) \o <<"\"">>
    ELSE s

\* csv.writer.writerow: the fields joined by commas, ended by "\r\n"
CsvLine(fields) ==
    Join(<<",">>, [i \in 1..Len(fields) |-> CsvField(fields[i])]) \o <<"\r", "\n">>

\* csv.DictWriter.writerows: each row's values in fieldnames order
RECURSIVE CsvRows(_)
CsvRows(rows) ==
    IF rows = <<>> THEN <<>>
    ELSE LET r == Head(rows)
         IN  CsvLine(<<r.PubmedID, r.Title, r.Publication_Date,
                       r.Non_academic_Authors, r.Company_Affiliations,
                       r.Corresponding_Author_Email>>)
             \o CsvRows(Tail(rows))

\* PaperProcessor.export_to_csv: file_path is <<>> for None, else <<path>>;
\* returned is <<>> for None, else <<str>>; written is <<>> when no file is
\* opened, else <<the text written>>
export_to_csv(rows, file_path) ==
    IF rows = <<>>
    THEN [returned |-> IF file_path = <<>> THEN << <<>> >> ELSE <<>>,
          written |-> <<>>]
    ELSE LET text == CsvLine(fieldnames) \o CsvRows(rows)
         IN  IF file_path = <<>>
             THEN [returned |-> <<text>>, written |-> <<>>]
             ELSE [returned |-> <<>>, written |-> <<text>>]

(***************************************************************************)
(* main, from the records fetch_details returned (main.py:62-83).          *)
(***************************************************************************)
OutPath == <<"o","u","t",".","c","s","v">>

ResultsSavedTo == <<"R","e","s","u","l","t","s"," ","s","a","v","e","d"," ","t","o"," ">>

\* what the output file held before the program ran
OldContent == <<"o","l","d">>

AuthorNames == { <<"A"," ","L","e","e">>, <<"B"," ","R","o","y">> }

Emails == { <<"a","@","x",".","i","o">>, <<"b","@","y",".","i","o">> }

\* the authors of the records that vary names and affiliations
PlainAuthors ==
    { [name |-> n, affiliations |-> <<>>, is_corresponding |-> FALSE, email |-> <<>>] :
        n \in AuthorNames }

\* the authors of the records that vary the corresponding-author fields
EmailAuthors ==
    { [name |-> CHOOSE n \in AuthorNames : TRUE, affiliations |-> <<>>,
       is_corresponding |-> c, email |-> e] :
        c \in BOOLEAN, e \in Emails \cup {<<>>} }

\* the salted hashes a process may draw: every ranking of the company names
CompanyNames == { Extracted[a] : a \in {x \in Affiliations : Classified[x]} }

HashOrders ==
    { h \in [CompanyNames -> 1..Cardinality(CompanyNames)] :
        \A x, y \in CompanyNames : x # y => h[x] # h[y] }

DigitChars == <<"1","2","3","4","5","6","7","8","9">>

\* the i-th fetched paper, before its authors are known
BlankPaper(i) ==
    [pmid |-> <<DigitChars[i]>>,
     title |-> IF i % 2 = 1 THEN <<"D","r","u","g","s",","," ","\"","n","e","w","\"">> ELSE <<"T","r","i","a","l","s">>,
     publication_date |-> <<"2","0","2","4">>,
     authors |-> <<>>]

\* the number of papers, authors and affiliations in a list of papers
RECURSIVE AuthorNodes(_)
AuthorNodes(authors) ==
    IF authors = <<>> THEN 0
    ELSE 1 + Len(Head(authors).affiliations) + AuthorNodes(Tail(authors))

RECURSIVE Nodes(_)
Nodes(ps) ==
    IF ps = <<>> THEN 0
    ELSE 1 + AuthorNodes(Head(ps).authors) + Nodes(Tail(ps))

InitProc ==
    /\ StrIdle
    /\ FetchIdle
    /\ ParseIdle
    /\ papers = <<>>
    /\ phase = "fetched"
    /\ args_file = <<>>
    /\ processed_papers = <<>>
    /\ stdout = <<>>
    /\ fs \in {<<>>, <<OldContent>>}

\* the literature source returns one more paper
NewPaper(bound) ==
    /\ phase = "fetched"
    /\ Nodes(papers) < bound
    /\ Len(papers) < Len(DigitChars)
    /\ papers' = Append(papers, BlankPaper(Len(papers) + 1))
    /\ UNCHANGED <<strVars, fetchVars, parseVars, phase, args_file, processed_papers,
                   stdout, fs>>

\* the last paper has one more author
NewAuthor(bound, authors) ==
    /\ phase = "fetched"
    /\ Nodes(papers) < bound
    /\ papers # <<>>
    /\ \E a \in authors :
           papers' = [papers EXCEPT ![Len(papers)].authors = Append(@, a)]
    /\ UNCHANGED <<strVars, fetchVars, parseVars, phase, args_file, processed_papers,
                   stdout, fs>>

\* the last author has one more affiliation
NewAffiliation(bound, affiliations) ==
    /\ phase = "fetched"
    /\ Nodes(papers) < bound
    /\ papers # <<>>
    /\ papers[Len(papers)].authors # <<>>
    /\ \E x \in affiliations :
           LET n == Len(papers[Len(papers)].authors)
           IN  papers' = [papers EXCEPT
                            ![Len(papers)].authors[n].affiliations = Append(@, x)]
    /\ UNCHANGED <<strVars, fetchVars, parseVars, phase, args_file, processed_papers,
                   stdout, fs>>

\* one run of the program on the fetched papers (main.py:64-76): the process
\* draws its hash salt and the arguments name an output file or none
Main ==
    /\ phase \in {"fetched", "ran"}
    /\ \E hash \in HashOrders, file \in {<<>>, <<OutPath>>} :
           LET rows == process_papers(papers, hash)
               out == export_to_csv(rows, file)
           IN  /\ processed_papers' = rows
               /\ args_file' = file
               /\ fs' = IF out.written # <<>> THEN out.written ELSE fs
               /\ stdout' =
                      IF file # <<>> THEN <<ResultsSavedTo \o OutPath>>
                      ELSE <<out.returned[1]>>
    /\ phase' = "ran"
    /\ UNCHANGED <<strVars, fetchVars, parseVars, papers>>

NextProc ==
    \/ NewPaper(MaxNodes)
    \/ NewAuthor(MaxNodes, PlainAuthors)
    \/ NewAffiliation(MaxNodes, Affiliations)
    \/ Main

SpecProc == InitProc /\ [][NextProc]_vars

NextEmail ==
    \/ NewPaper(MaxEmailNodes)
    \/ NewAuthor(MaxEmailNodes, EmailAuthors)
    \/ NewAffiliation(MaxEmailNodes, {CHOOSE a \in Affiliations : Classified[a]})
    \/ Main

SpecEmail == InitProc /\ [][NextEmail]_vars

(***************************************************************************)
(* PubMedClient._parse_papers.                                             *)
(*                                                                         *)
(* A payload is [wellformed, articles]: ET.fromstring raises ParseError on *)
(* a payload that is not well-formed, else articles are its PubmedArticle  *)
(* elements in document order.  An article element is [PMID, ArticleTitle, *)
(* PubDate, AuthorList], each <<>> when the element is absent, else        *)
(* <<content>>; PubDate holds [Year, Month, Day] and an Author element     *)
(* [LastName, ForeName, Initials, CollectiveName, AffiliationInfo,         *)
(* Affiliation, Identifier], a text being the empty str when its element   *)
(* is absent, which is what findtext(name, "") returns.                    *)
(***************************************************************************)
Letters == { UpperAlpha[k] : k \in 1..26 } \cup { LowerAlpha[k] : k \in 1..26 }

\* the character classes of the email expression (pubmed_client.py:235)
EmailLocalChars == Letters \cup Digits \cup {"_", ".", "+", "-"}

EmailDomainChars == Letters \cup Digits \cup {"-"}

EmailTailChars == Letters \cup Digits \cup {"-", "."}

\* the last index of the run of characters of class that starts at from
\* (from - 1 when the run is empty)
RunEnd(s, from, class) ==
    LET stops == { e \in from..Len(s) : s[e] \notin class }
    IN  IF stops = {} THEN Len(s)
        ELSE (CHOOSE e \in stops : \A f \in stops : e <= f) - 1

\* the first index of the run of characters of class that ends at to
\* (to + 1 when the run is empty)
RunStart(s, to, class) ==
    LET stops == { b \in 1..to : s[b] \notin class }
    IN  IF stops = {} THEN 1
        ELSE (CHOOSE b \in stops : \A c \in stops : c <= b) + 1

\* the match of the email expression whose "@" is at index at: <<>> when there
\* is none, else <<first index, last index>>
EmailMatchAt(s, at) ==
    LET first == RunStart(s, at - 1, EmailLocalChars)
        dom == RunEnd(s, at + 1, EmailDomainChars)
        last == RunEnd(s, dom + 2, EmailTailChars)
    IN  IF /\ s[at] = "@"
           /\ first <= at - 1
           /\ dom >= at + 1
           /\ dom + 1 <= Len(s)
           /\ s[dom + 1] = "."
           /\ last >= dom + 2
        THEN <<first, last>>
        ELSE <<>>

\* re.search(r'([a-zA-Z0-9_.+-]+@[a-zA-Z0-9-]+\.[a-zA-Z0-9-.]+)', s): <<>> for
\* no match, else <<group 1>>
EmailSearch(s) ==
    LET ats == { at \in 1..Len(s) : EmailMatchAt(s, at) # <<>> }
    IN  IF ats = {} THEN <<>>
        ELSE LET m == EmailMatchAt(s, CHOOSE at \in ats : \A b \in ats : at <= b)
             IN  <<SubSeq(s, m[1], m[2])>>

\* _parse_papers, the date of one article (lines 158-172)
PublicationDate(article) ==
    IF article.PubDate = <<>> THEN <<>>
    ELSE LET year == article.PubDate[1].Year
             month == article.PubDate[1].Month
             day == article.PubDate[1].Day
         IN  IF year # <<>>
             THEN IF month # <<>>
                  THEN IF day # <<>>
                       THEN day \o <<" ">> \o month \o <<" ">> \o year
                       ELSE month \o <<" ">> \o year
                  ELSE year
             ELSE <<>>

\* _parse_papers, the name of one Author element (lines 183-200): <<>> when
\* the author is skipped, else <<name>>
AuthorName(author_elem) ==
    LET last_name == author_elem.LastName
        fore_name == author_elem.ForeName
        initials == author_elem.Initials
        collective_name == author_elem.CollectiveName
    IN  IF last_name # <<>>
        THEN IF fore_name # <<>> THEN <<fore_name \o <<" ">> \o last_name>>
             ELSE IF initials # <<>> THEN <<initials \o <<" ">> \o last_name>>
             ELSE <<last_name>>
        ELSE IF collective_name # <<>> THEN <<collective_name>>
        ELSE <<>>

\* _parse_papers, the affiliations of one Author element (lines 203-217)
AuthorAffiliations(author_elem) ==
    LET NonEmpty(x) == x # <<>>
        infos == SelectSeq(author_elem.AffiliationInfo, NonEmpty)
    IN  IF infos # <<>> THEN infos
        ELSE IF author_elem.Affiliation # <<>> THEN <<author_elem.Affiliation>>
        ELSE <<>>

\* _parse_papers, the first Identifier with Source "email" (lines 226-230):
\* <<>> when there is none, else <<its text>>
RECURSIVE EmailIdentifier(_)
EmailIdentifier(identifiers) ==
    IF identifiers = <<>> THEN <<>>
    ELSE IF Head(identifiers).Source = <<"e","m","a","i","l">>
         THEN <<Head(identifiers).text>>
         ELSE EmailIdentifier(Tail(identifiers))

\* _parse_papers, the first affiliation holding an email (lines 234-239)
RECURSIVE EmailInAffiliations(_)
EmailInAffiliations(affiliations) ==
    IF affiliations = <<>> THEN <<>>
    ELSE LET email_match == EmailSearch(Head(affiliations))
         IN  IF email_match # <<>> THEN email_match
             ELSE EmailInAffiliations(Tail(affiliations))

\* _parse_papers, one Author element (lines 180-241): <<>> when the author is
\* skipped, else <<author>>
ParseAuthor(author_elem) ==
    LET name == AuthorName(author_elem)
        affiliations == AuthorAffiliations(author_elem)
        identified == EmailIdentifier(author_elem.Identifier)
        in_text == EmailInAffiliations(affiliations)
    IN  IF name = <<>> THEN <<>>
        ELSE IF identified # <<>> /\ identified[1] # <<>>
        THEN << [name |-> name[1], affiliations |-> affiliations,
                 is_corresponding |-> TRUE, email |-> identified[1]] >>
        ELSE IF in_text # <<>>
        THEN << [name |-> name[1], affiliations |-> affiliations,
                 is_corresponding |-> TRUE, email |-> in_text[1]] >>
        ELSE << [name |-> name[1], affiliations |-> affiliations,
                 is_corresponding |-> identified # <<>>, email |-> <<>>] >>

\* _parse_papers, the loop over the Author elements (lines 179-241)
RECURSIVE ParseAuthors(_)
ParseAuthors(author_elems) ==
    IF author_elems = <<>> THEN <<>>
    ELSE ParseAuthor(Head(author_elems)) \o ParseAuthors(Tail(author_elems))

\* _parse_papers, one PubmedArticle (lines 141-244): <<>> when the article is
\* skipped, else <<paper>>
ParseArticle(article) ==
    IF article.PMID = <<>> THEN <<>>
    ELSE << [pmid |-> article.PMID[1],
             title |-> IF article.ArticleTitle # <<>> THEN article.ArticleTitle[1]
                       ELSE <<>>,
             publication_date |-> PublicationDate(article),
             authors |-> IF article.AuthorList # <<>>
                         THEN ParseAuthors(article.AuthorList[1])
                         ELSE <<>>] >>

\* a plausible slip: an article without PMID ends the loop (break for continue)
ParseArticles_break(articles) ==
    LET missing == { k \in 1..Len(articles) : articles[k].PMID = <<>> }
        upto == IF missing = {} THEN Len(articles)
                ELSE (CHOOSE k \in missing : \A m \in missing : k <= m) - 1
    IN  Concat([k \in 1..upto |-> ParseArticle(articles[k])])

\* _parse_papers, the loop over the articles (lines 140-244): each article
\* appends its paper to papers, or nothing when it is skipped
ParseArticles(articles) ==
    Concat([k \in 1..Len(articles) |-> ParseArticle(articles[k])])

\* PubMedClient._parse_papers: a ParseError leaves papers empty
_parse_papers(xml) ==
    IF xml.wellformed THEN ParseArticles(xml.articles) ELSE <<>>

(***************************************************************************)
(* PubMedClient.fetch_details, one action per request of its loop, and the *)
(* literature source answering it.                                         *)
(***************************************************************************)
\* fetch_details, chunk_size (line 92)
chunk_size == 100

\* the decimal digits of a natural number, as a str
RECURSIVE Decimal(_)
Decimal(n) ==
    LET d == <<"0","1","2","3","4","5","6","7","8","9">>[(n % 10) + 1]
    IN  IF n < 10 THEN <<d>> ELSE Decimal(n \div 10) \o <<d>>

\* the number a str of decimal digits denotes
RECURSIVE Number(_)
Number(s) ==
    IF s = <<>> THEN 0
    ELSE LET c == s[Len(s)]
             d == CHOOSE k \in 0..9 : Decimal(k) = <<c>>
         IN  10 * Number(SubSeq(s, 1, Len(s) - 1)) + d

\* s.split(","): the texts between the commas
SplitCommas(s) ==
    LET IsComma(j) == s[j] = ","
        commas == SelectSeq([j \in 1..Len(s) |-> j], IsComma)
    IN  [k \in 1..(Len(commas) + 1) |->
            SubSeq(s,
                   IF k = 1 THEN 1 ELSE commas[k - 1] + 1,
                   IF k = Len(commas) + 1 THEN Len(s) ELSE commas[k] - 1)]

\* the record the literature source holds for an identifier: which elements
\* it has varies with the identifier
SourceAuthors(k) ==
    LET named == [LastName |-> <<"L","e","e">>, ForeName |-> <<"A","n","n">>, Initials |-> <<>>,
                  CollectiveName |-> <<>>, AffiliationInfo |-> <<<<"B","e","t","a"," ","C","o","r","p">>>>,
                  Affiliation |-> <<>>, Identifier |-> <<>>]
        nameless == [LastName |-> <<>>, ForeName |-> <<"A","n","n">>, Initials |-> <<"A">>,
                     CollectiveName |-> <<>>, AffiliationInfo |-> <<<<"Y","a","l","e"," ","S","c","h","o","o","l">>>>,
                     Affiliation |-> <<>>, Identifier |-> <<>>]
        collective == [LastName |-> <<>>, ForeName |-> <<>>, Initials |-> <<>>,
                       CollectiveName |-> <<"T","r","i","a","l"," ","G","r","o","u","p">>, AffiliationInfo |-> <<>>,
                       Affiliation |-> <<"A","c","m","e"," ","P","h","a","r","m","a"," ","A","G",","," ","x","@","a","c","m","e",".","i","o">>, Identifier |-> <<>>]
    IN  CASE k % 4 = 0 -> <<>>
          [] k % 4 = 1 -> << <<named, nameless, collective>> >>
          [] k % 4 = 2 -> << <<nameless, named>> >>
          [] OTHER -> << <<nameless>> >>

SourceRecord(id) ==
    LET k == Number(id)
        b == k % 9
    IN  [PMID |-> IF k % 7 = 3 THEN <<>> ELSE <<id>>,
         ArticleTitle |-> IF k % 5 = 0 THEN <<>> ELSE <<<<"T">> \o id>>,
         PubDate |-> IF b = 8 THEN <<>>
                     ELSE << [Year |-> IF b % 2 = 1 THEN <<"2","0","2","4">> ELSE <<>>,
                              Month |-> IF (b \div 2) % 2 = 1 THEN <<"J","a","n">> ELSE <<>>,
                              Day |-> IF (b \div 4) % 2 = 1 THEN <<"5">> ELSE <<>>] >>,
         AuthorList |-> SourceAuthors(k)]

\* response.text for a request: the records of the identifiers asked for, or
\* text that is not well-formed XML
SourceResponse(id_param, outcome) ==
    IF outcome = "malformed" THEN [wellformed |-> FALSE, articles |-> <<>>]
    ELSE LET ids == SplitCommas(id_param)
         IN  [wellformed |-> TRUE,
              articles |-> [j \in 1..Len(ids) |-> SourceRecord(ids[j])]]

\* a plausible slip: the pause is also taken after a last, full chunk
SleepsAfter_le(index, n) == index + chunk_size <= n

\* fetch_details, whether it pauses after the chunk at index (line 115)
SleepsAfter(index, n) == index + chunk_size < n

GetEvent(id_param, outcome) == [kind |-> "get", id |-> id_param, outcome |-> outcome]

SleepEvent == [kind |-> "sleep", id |-> <<>>, outcome |-> "none"]

InitFetch ==
    /\ StrIdle
    /\ ProcIdle
    /\ ParseIdle
    /\ pmid_list \in { [k \in 1..n |-> Decimal(k)] : n \in 0..MaxIds }
    /\ fetch_pc = "idle"
    /\ loop_i = 0
    /\ all_papers = <<>>
    /\ trace = <<>>

\* fetch_details up to its loop (lines 82-93)
FetchCall ==
    /\ fetch_pc = "idle"
    /\ fetch_pc' = IF pmid_list = <<>> THEN "done" ELSE "loop"
    /\ loop_i' = 0
    /\ all_papers' = <<>>
    /\ UNCHANGED <<strVars, procVars, parseVars, pmid_list, trace>>

\* one iteration of the loop (lines 95-116), and the return after the last:
\* the source answers with records, with text that does not parse, or with
\* an HTTP error, which raise_for_status raises
FetchChunk ==
    /\ fetch_pc = "loop"
    /\ LET n == Len(pmid_list)
           last == IF loop_i + chunk_size < n THEN loop_i + chunk_size ELSE n
           chunk == SubSeq(pmid_list, loop_i + 1, last)
           id_param == Join(<<",">>, chunk)
       IN  \E outcome \in {"ok", "malformed", "http_error"} :
               IF outcome = "http_error"
               THEN /\ trace' = Append(trace, GetEvent(id_param, outcome))
                    /\ fetch_pc' = "raised"
                    /\ UNCHANGED <<loop_i, all_papers>>
               ELSE /\ all_papers' =
                           all_papers \o _parse_papers(SourceResponse(id_param, outcome))
                    /\ trace' = trace \o <<GetEvent(id_param, outcome)>>
                                  \o (IF SleepsAfter(loop_i, n) THEN <<SleepEvent>> ELSE <<>>)
                    /\ loop_i' = loop_i + chunk_size
                    /\ fetch_pc' = IF loop_i + chunk_size < n THEN "loop" ELSE "done"
    /\ UNCHANGED <<strVars, procVars, parseVars, pmid_list>>

NextFetch == FetchCall \/ FetchChunk

SpecFetch == InitFetch /\ [][NextFetch]_vars

(***************************************************************************)
(* _parse_papers applied to payloads that vary the PMID and the date parts.*)
(***************************************************************************)
DateArticles ==
    { [PMID |-> pm, ArticleTitle |-> <<<<"T">>>>, PubDate |-> pd, AuthorList |-> <<>>] :
        pm \in {<<>>, << <<"7">> >>},
        pd \in {<<>>} \cup
               { << [Year |-> y, Month |-> m, Day |-> d] >> :
                   y \in {<<>>, <<"2","0","2","4">>}, m \in {<<>>, <<"J","a","n">>}, d \in {<<>>, <<"5">>} } }

Payloads ==
    { [wellformed |-> FALSE, articles |-> <<>>] } \cup
    UNION { { [wellformed |-> TRUE, articles |-> a] : a \in [1..n -> DateArticles] } :
            n \in 0..MaxArticles }

InitParse ==
    /\ StrIdle
    /\ ProcIdle
    /\ FetchIdle
    /\ xml_content \in Payloads
    /\ parse_ret = <<>>

CallParse ==
    /\ parse_ret = <<>>
    /\ parse_ret' = <<_parse_papers(xml_content)>>
    /\ UNCHANGED <<strVars, procVars, fetchVars, xml_content>>

NextParse == CallParse

SpecParse == InitParse /\ [][NextParse]_vars

(***************************************************************************)
(* The classifier and the extractor applied to arg_affiliation strings built   *)
(* from a vocabulary of fragments.                                     *)
(***************************************************************************)
Tokens ==
    { <<"A","c","m","e">>,
      <<" ","P","h","a","r","m","a">>,
      <<" ","I","n","c">>,
      <<" ","C","o">>,
      <<"A","G">>,
      <<" ","C","o","l","l","e","g","e">>,
      <<".">>,
      <<",">>,
      <<"(">>,
      <<" ">> }

AffiliationStrings ==
    UNION { { Concat(f) : f \in [1..n -> Tokens] } : n \in 0..MaxTokens }

InitStr ==
    /\ arg_affiliation \in AffiliationStrings
    /\ is_pharma_ret = <<>>
    /\ company_name_ret = <<>>
    /\ ProcIdle
    /\ FetchIdle
    /\ ParseIdle

CallIsPharma ==
    /\ is_pharma_ret = <<>>
    /\ is_pharma_ret' = <<is_pharma_affiliation(arg_affiliation)>>
    /\ UNCHANGED <<arg_affiliation, company_name_ret, procVars, fetchVars, parseVars>>

CallExtract ==
    /\ company_name_ret = <<>>
    /\ company_name_ret' = <<extract_company_name(arg_affiliation)>>
    /\ UNCHANGED <<arg_affiliation, is_pharma_ret, procVars, fetchVars, parseVars>>

NextStr == CallIsPharma \/ CallExtract

SpecStr == InitStr /\ [][NextStr]_vars

(***************************************************************************)
(* Properties of the classifier and the extractor (under SpecStr).         *)
(***************************************************************************)
\* whether s ends with t
EndsWith(s, t) ==
    Len(t) <= Len(s) /\ SubSeq(s, Len(s) - Len(t) + 1, Len(s)) = t

\* the company suffixes the rule set names for its last rule
ClaimEndings ==
    { <<"i","n","c">>, <<"c","o","r","p">>, <<"c","o",".">>, <<"l","t","d">>,
      <<"l","l","c">>, <<"g","m","b","h">>, <<"s","a">>, <<"a","g">>,
      <<"p","t","y">> }

\* the ordered rule set, stated declaratively
RuleSet(s) ==
    LET low == Lower(s)
        academic == \E t \in ACADEMIC_TERMS : Contains(t, low)
        domain == \E t \in PHARMA_TERMS : Contains(t, low)
        entity == \E k \in 1..Len(COMPANY_INDICATORS) :
                      Contains(COMPANY_INDICATORS[k], low)
        ending == \E e \in ClaimEndings :
                      EndsWith(Strip(low), e) \/ EndsWith(Strip(low), e \o <<".">>)
    IN  IF s = <<>> \/ academic THEN FALSE
        ELSE (domain /\ entity) \/ ending

\* C3: is_pharma_affiliation returns a boolean for every string: false for the
\* empty string and for any text containing an academic term, else true exactly
\* when a domain term and an entity indicator are both present or the trimmed
\* lower-cased text ends with a company suffix, optionally followed by a period.
C3_ClassifierFollowsRuleSet ==
    is_pharma_ret # <<>> =>
        /\ is_pharma_ret[1] \in BOOLEAN
        /\ is_pharma_ret[1] = RuleSet(arg_affiliation)

\* academic precedence happened: an academic term and a company ending together
C3_Witness ==
    /\ is_pharma_ret = <<FALSE>>
    /\ \E t \in ACADEMIC_TERMS : Contains(t, Lower(arg_affiliation))
    /\ \E e \in ClaimEndings : EndsWith(Strip(Lower(arg_affiliation)), e \o <<".">>)

\* the index of the first comma or opening parenthesis, Len(s) + 1 without one
FirstDelimiter(s) ==
    LET at == {i \in 1..Len(s) : s[i] \in {",", "("}}
    IN  IF at = {} THEN Len(s) + 1
        ELSE CHOOSE i \in at : \A j \in at : i <= j

\* C4: extract_company_name returns the text before the first comma or opening
\* parenthesis, trimmed; the whole text trimmed when there is no delimiter; the
\* empty string for the empty string and when the first character is a delimiter.
C4_ExtractBeforeDelimiter ==
    company_name_ret # <<>> =>
        company_name_ret[1] =
            Strip(SubSeq(arg_affiliation, 1, FirstDelimiter(arg_affiliation) - 1))

(***************************************************************************)
(* Properties of process_papers, export_to_csv and main (under SpecProc    *)
(* and SpecEmail).                                                         *)
(***************************************************************************)
\* whether some author of the paper has some affiliation classified as industry
Qualifies(paper) ==
    \E i \in 1..Len(paper.authors) :
        \E j \in 1..Len(paper.authors[i].affiliations) :
            is_pharma_affiliation(paper.authors[i].affiliations[j])

\* the input papers that qualify, in input order
QualifyingPapers == SelectSeq(papers, Qualifies)

\* C1: process_papers emits exactly one row per paper that has an author with an
\* affiliation classified as industry, in input order, and none for any other
\* paper.
C1_RowIffIndustryAffiliation ==
    phase = "ran" =>
        /\ Len(processed_papers) = Len(QualifyingPapers)
        /\ \A k \in 1..Len(processed_papers) :
               processed_papers[k].PubmedID = QualifyingPapers[k].pmid

\* a paper without industry affiliation was dropped and a later one kept
C1_Witness ==
    /\ phase = "ran"
    /\ Len(papers) = 2
    /\ ~Qualifies(papers[1])
    /\ \E i \in 1..Len(papers[1].authors) : papers[1].authors[i].affiliations # <<>>
    /\ Len(processed_papers) = 1
    /\ processed_papers[1].PubmedID = papers[2].pmid

\* the (author, affiliation) index pairs of a paper classified as industry
IndustryPairs(paper) ==
    UNION { { <<i, j>> : j \in { j \in 1..Len(paper.authors[i].affiliations) :
                                   is_pharma_affiliation(paper.authors[i].affiliations[j]) } } :
            i \in 1..Len(paper.authors) }

\* author order first, affiliation order second
PairBefore(p, q) == p[1] < q[1] \/ (p[1] = q[1] /\ p[2] < q[2])

\* one author name per industry pair, in pair order
IndustryPairNames(paper) ==
    LET pairs == IndustryPairs(paper)
    IN  [k \in 1..Cardinality(pairs) |->
            LET p == CHOOSE p \in pairs :
                         Cardinality({q \in pairs : PairBefore(q, p)}) = k - 1
            IN  paper.authors[p[1]].name]

\* C5: the author-name field of a row is the "; "-join of one entry per
\* (author, affiliation) pair classified as industry, in author order and then
\* affiliation order, without deduplication.
C5_AuthorsOnePerIndustryPair ==
    (phase = "ran" /\ Len(processed_papers) = Len(QualifyingPapers)) =>
        \A k \in 1..Len(processed_papers) :
            processed_papers[k].Non_academic_Authors =
                Join(<<";", " ">>, IndustryPairNames(QualifyingPapers[k]))

\* an author with two industry affiliations, then another author with one
C5_Witness ==
    /\ phase = "ran"
    /\ Len(processed_papers) = 1
    /\ Len(papers) = 1
    /\ Len(papers[1].authors) = 2
    /\ papers[1].authors[1].name # papers[1].authors[2].name
    /\ IndustryPairs(papers[1]) = {<<1, 1>>, <<1, 2>>, <<2, 1>>}
    /\ processed_papers[1].Non_academic_Authors =
           Join(<<";", " ">>, <<papers[1].authors[1].name, papers[1].authors[1].name,
                                papers[1].authors[2].name>>)

\* C6: two runs of the program on the same papers yield identical rows, the
\* company names of each row joined in the same order.
C6_RowsDeterministicAcrossRuns ==
    [][(phase = "ran" /\ phase' = "ran" /\ papers' = papers)
           => processed_papers' = processed_papers]_vars

\* C7: with no rows, export_to_csv returns the empty string when there is no
\* destination; with a file destination nothing is written and main does not
\* report the results as saved to that file.
C7_EmptyExportNotReportedSaved ==
    (phase = "ran" /\ processed_papers = <<>>) =>
        /\ fs \in {<<>>, <<OldContent>>}
        /\ args_file = <<>> => stdout = << <<>> >>
        /\ args_file # <<>> => stdout # <<ResultsSavedTo \o args_file[1]>>

\* the email of the first author with is_corresponding and a non-empty email
FirstCorrespondingEmail(paper) ==
    LET ok == { i \in 1..Len(paper.authors) :
                  paper.authors[i].is_corresponding /\ paper.authors[i].email # <<>> }
    IN  IF ok = {} THEN <<>>
        ELSE paper.authors[CHOOSE i \in ok : \A j \in ok : i <= j].email

\* C2: the email field of a row is the email of the first author, in author
\* order, with is_corresponding and a non-empty email; later such authors do
\* not overwrite it; it is empty when no author qualifies.
C2_FirstCorrespondingEmailWins ==
    (phase = "ran" /\ Len(processed_papers) = Len(QualifyingPapers)) =>
        \A k \in 1..Len(processed_papers) :
            processed_papers[k].Corresponding_Author_Email =
                FirstCorrespondingEmail(QualifyingPapers[k])

(***************************************************************************)
(* Properties of fetch_details and _parse_papers (under SpecFetch and      *)
(* SpecParse).                                                             *)
(***************************************************************************)
IsGet(e) == e.kind = "get"

\* the requests sent so far, in order
Gets == SelectSeq(trace, IsGet)

\* C8: fetch_details on n identifiers sends ceil(n/100) requests, each for a
\* contiguous chunk of at most 100 identifiers, together naming every identifier
\* once and in order; it returns the parsed papers of the chunks concatenated in
\* chunk order; it pauses after a request exactly when another chunk follows.
C8_ChunkedFetch ==
    fetch_pc = "done" =>
        LET n == Len(pmid_list)
            asked == [k \in 1..Len(Gets) |-> SplitCommas(Gets[k].id)]
            parsed == [k \in 1..Len(Gets) |->
                          _parse_papers(SourceResponse(Gets[k].id, Gets[k].outcome))]
        IN  /\ Len(Gets) = (n + 99) \div 100
            /\ \A k \in 1..Len(Gets) : Len(asked[k]) <= 100
            /\ n > 0 => Concat(asked) = pmid_list
            /\ all_papers = Concat(parsed)
            /\ Len(trace) = IF n = 0 THEN 0 ELSE 2 * Len(Gets) - 1
            /\ \A j \in 1..Len(trace) :
                   trace[j].kind = IF j % 2 = 1 THEN "get" ELSE "sleep"

\* three chunks were fetched, with a pause after the first and the second only
C8_Witness ==
    /\ fetch_pc = "done"
    /\ Len(pmid_list) = 201
    /\ Len(trace) = 5
    /\ trace[5].kind = "get"
    /\ trace[5].id = Decimal(201)

HasPMID(article) == article.PMID # <<>>

\* an Author element carries a name: LastName, or else CollectiveName
HasName(author_elem) == author_elem.LastName # <<>> \/ author_elem.CollectiveName # <<>>

\* per article that has a PMID, in document order: the PMID and the names of
\* its authors that carry a name, in document order
ExpectedOf(xml) ==
    IF ~xml.wellformed THEN <<>>
    ELSE LET kept == SelectSeq(xml.articles, HasPMID)
         IN  [k \in 1..Len(kept) |->
                LET named == IF kept[k].AuthorList = <<>> THEN <<>>
                             ELSE SelectSeq(kept[k].AuthorList[1], HasName)
                IN  [pmid |-> kept[k].PMID[1],
                     names |-> [j \in 1..Len(named) |-> AuthorName(named[j])[1]]]]

\* the PMID and author names of each returned paper
Returned(ps) ==
    [k \in 1..Len(ps) |->
        [pmid |-> ps[k].pmid,
         names |-> [j \in 1..Len(ps[k].authors) |-> ps[k].authors[j].name]]]

C10_DateUsesPresentParts ==
    (parse_ret # <<>> /\ xml_content.wellformed) =>
        LET kept == SelectSeq(xml_content.articles, HasPMID)
        IN  \A k \in 1..Len(kept) :
                (k <= Len(parse_ret[1]) /\ kept[k].PubDate # <<>>) =>
                    LET d == kept[k].PubDate[1]
                        date == parse_ret[1][k].publication_date
                    IN  /\ d.Year # <<>> => Contains(d.Year, date)
                        /\ d.Month # <<>> => Contains(d.Month, date)
                        /\ d.Day # <<>> => Contains(d.Day, date)
                        /\ date = <<>> => (d.Year = <<>> /\ d.Month = <<>> /\ d.Day = <<>>)

====
